---- MODULE Spec2Model ----
(***************************************************************************)
(* Model of the go-cti package manager: the dependency install / lock      *)
(* reconciliation pipeline of pkg/pacman (InstallNewDependencies,          *)
(* InstallIndexDependencies, installDependencies,                          *)
(* processInstalledDependencies) over the Manifest (Index), the Lock       *)
(* Snapshot (IndexLock), their persisted files and the .dep tree.          *)
(*                                                                         *)
(* The program is single threaded and synchronous, so one action is one    *)
(* whole call of an exported operation.  The environment chooses the       *)
(* arguments and the point (if any) at which an external step fails.       *)
(***************************************************************************)
EXTENDS Naturals, Sequences, FiniteSets, TLC

(***************************************************************************)
(* Bounds.                                                                 *)
(***************************************************************************)
\* Longest list of dependency specs a caller passes to InstallNewDependencies.
MaxReq == 2
\* Longest Manifest.Depends of a freshly checked-out manifest.
MaxInit == 2
\* Highest position, in the post-processing pipeline, at which a step fails.
MaxFailStep == 3

(***************************************************************************)
(* Dependency specs.  A spec is the string "name" or "name@version", kept  *)
(* as a sequence of characters so that parsing it is a computation.        *)
(***************************************************************************)
SpecA1 == <<"a", "@", "1">>
SpecA2 == <<"a", "@", "2">>
SpecB == <<"b">>
\* The dependency a@2 declares in its own manifest.
SpecB1 == <<"b", "@", "1">>
Pool == {SpecA1, SpecA2, SpecB}

\* Position of the first "@" of a spec, 0 when it has none.
AtPos(s) ==
    IF \E i \in 1..Len(s) : s[i] = "@"
    THEN CHOOSE i \in 1..Len(s) : s[i] = "@" /\ \A j \in 1..(i - 1) : s[j] # "@"
    ELSE 0

\* ParseIndexDependency: <<name, version>>; the version is empty when the
\* spec carries none.
ParseIndexDependency(s) ==
    LET i == AtPos(s)
    IN  IF i = 0 THEN <<s, <<>>>>
        ELSE <<SubSeq(s, 1, i - 1), SubSeq(s, i + 1, Len(s))>>

DepName(s) == ParseIndexDependency(s)[1]

\* The set of parsed names of a list of specs.
NamesOf(deps) == {DepName(deps[i]) : i \in 1..Len(deps)}

\* No two specs of the list share a parsed name.
UniqueByName(deps) ==
    \A i, j \in 1..Len(deps) : DepName(deps[i]) = DepName(deps[j]) => i = j

Contains(seq, x) == \E i \in 1..Len(seq) : seq[i] = x

Range(seq) == {seq[i] : i \in 1..Len(seq)}

(***************************************************************************)
(* Lock Snapshot entries and the .dep tree.                                *)
(***************************************************************************)
\* The zero value Go returns for a source name the Packages map lacks.
ZeroLock == [AppCode |-> "", Depends |-> <<>>]

\* IndexLock.Packages[sourceName], with Go's zero value for a missing key.
LockEntry(pk, n) == IF n \in DOMAIN pk THEN pk[n] ELSE ZeroLock

EmptyLock == [n \in {} |-> ZeroLock]

PutLock(pk, n, e) == [m \in DOMAIN pk \cup {n} |-> IF m = n THEN e ELSE pk[m]]

\* What the external fetch mechanism delivers for a spec: the installed
\* identifier (directory name under .dep) and the package's own depends.
\* a@2 depends on b@1; a@1 and b depend on nothing.
Fetch(spec) ==
    LET p == ParseIndexDependency(spec)
    IN  IF p[1] = <<"a">>
        THEN IF p[2] = <<"1">>
             THEN [AppCode |-> "x", Depends |-> <<>>]
             ELSE [AppCode |-> "x", Depends |-> <<SpecB1>>]
        ELSE [AppCode |-> "y", Depends |-> <<>>]

AppCodes == {Fetch(s).AppCode : s \in Pool}

\* A directory <base>/.dep/<installed-identifier>: the package placed there,
\* the private dependency links rewritten so far, and whether the derived
\* metadata cache has been built.
NoDir == [present |-> FALSE, pkg |-> ZeroLock, links |-> {}, cache |-> FALSE]
FreshDir(e) == [present |-> TRUE, pkg |-> e, links |-> {}, cache |-> FALSE]
EmptyTree == [c \in AppCodes |-> NoDir]

(***************************************************************************)
(* Program state.                                                          *)
(***************************************************************************)
VARIABLES
    Depends,    \* Package.Index.Depends, in memory
    Packages,   \* Package.IndexLock.Packages, in memory
    diskIndex,  \* the Depends of the persisted Manifest file
    diskLock,   \* the Packages of the persisted Lock Snapshot file
    depTree,    \* the .dep directory tree on disk
    last,       \* the process's last call: operation, arguments, the failure
                \* the environment chose, the outcome, the steps run (trace),
                \* Manifest.Depends before the call (pre) and the error of
                \* the call it re-ran (prev)
    ideal,      \* once a call has failed: what that call yields, from the
                \* state it started in, when nothing fails
    fs,         \* the file system the replace helpers of pkg/filesys work on:
                \* the kind of every path that exists
    fsCall,     \* the helper call made: arguments, the failure the
                \* environment chose, the file system before it, the steps
                \* run and the error returned
    Index,      \* Bundle.Index
    IndexLock,  \* Bundle.IndexLock
    baseDir,    \* the index file and the index lock file under Bundle.BaseDir
    readCall,   \* the last Bundle.Read: the failure the environment chose,
                \* Index and IndexLock before it, the error returned
    valCall,    \* the Validate call made: the failure the environment chose,
                \* the order the locked dependencies were visited in, the
                \* steps run and the []error returned
    registry,   \* the Entity Registry the parser builds for Pack: Instances
    pkgFiles,   \* the asset and metadata cache files under the package root
    archive,    \* bundle.zip at the package root
    packCall    \* the Pack call made: the failure the environment chose, the
                \* order each entity's annotations were visited in, the steps
                \* run and the error returned

installVars == <<Depends, Packages, diskIndex, diskLock, depTree, last, ideal>>
fsVars == <<fs, fsCall>>
bundleVars == <<Index, IndexLock, baseDir, readCall>>

packVars == <<registry, pkgFiles, archive, packCall>>

vars ==
    <<Depends, Packages, diskIndex, diskLock, depTree, last, ideal, fs, fsCall,
      Index, IndexLock, baseDir, readCall, valCall, registry, pkgFiles, archive,
      packCall>>

\* The file system with nothing in it but the root, and no helper called.
EmptyFs == [p \in {} |-> "dir"]

NoFsCall ==
    [op |-> "none", src |-> <<>>, dst |-> <<>>, fail |-> "none", pre |-> EmptyFs,
     err |-> "none", trace |-> <<>>]

FsIdle == fs = EmptyFs /\ fsCall = NoFsCall

\* bundle.New: an empty Index and an IndexLock with the current version.
NewIndex == [AppCode |-> "", Depends |-> <<>>]
NewIndexLock == [Version |-> "v1", SourceInfo |-> {}]

NoReadCall ==
    [op |-> "none", fail |-> "none", err |-> "none", Index |-> NewIndex,
     IndexLock |-> NewIndexLock]

NoValCall ==
    [op |-> "none", fail |-> [at |-> "none", dep |-> ""], order |-> <<>>,
     errors |-> <<>>, trace |-> <<>>]

ValidateIdle == valCall = NoValCall

\* A file that does not exist, and no archive.
NoFile == [exists |-> FALSE, data |-> <<>>]
NoArchive == [exists |-> FALSE, finalized |-> FALSE, entries |-> <<>>]

NoPackCall ==
    [op |-> "none", fail |-> [at |-> "none", n |-> 0], orders |-> <<>>,
     err |-> "none", error |-> <<>>, trace |-> <<>>]

PackIdle ==
    /\ registry = <<>>
    /\ pkgFiles = [f \in {} |-> NoFile]
    /\ archive = NoArchive
    /\ packCall = NoPackCall

BundleIdle ==
    /\ Index = NewIndex
    /\ IndexLock = NewIndexLock
    /\ baseDir = [index |-> [kind |-> "absent", doc |-> NewIndex],
                  lock |-> [kind |-> "absent", doc |-> NewIndexLock]]
    /\ readCall = NoReadCall

State ==
    [Depends |-> Depends, Packages |-> Packages, diskIndex |-> diskIndex,
     diskLock |-> diskLock, depTree |-> depTree]

\* One step of a call, as recorded in last.trace: kind, path, link target, ok.
Ev(kind, path, dep, ok) == <<kind, path, dep, ok>>

\* An error value is the chain of its layers, outermost first; a layer is the
\* message and what the message names ("" when it names nothing).
NoError == <<>>

\* fmt.Errorf("<msg> <named>: %w", cause).
Errorf(msg, named, cause) == << <<msg, named>> >> \o cause

\* The error of an external step (a file operation, the resolver, the
\* parser): it names the path the step was given.
External(op, path) == << <<op, path>> >>

\* What an error names, in any of its layers.
ErrorNames(error) == {error[i][2] : i \in 1..Len(error)} \ {""}

(***************************************************************************)
(* Download: the external resolver.  It reconciles the requested specs     *)
(* against the Lock Snapshot and installs what is not installed yet,       *)
(* transitive dependencies included.                                       *)
(***************************************************************************)
IsInstalled(acc, n) ==
    /\ n \in DOMAIN acc.Packages
    /\ acc.depTree[acc.Packages[n].AppCode].present

\* The resolver's record after it has installed entry e for source name n.
Installed(acc, n, e, replace) ==
    [Packages |-> PutLock(acc.Packages, n, e),
     depTree |-> [acc.depTree EXCEPT ![e.AppCode] = FreshDir(e)],
     installed |-> IF Contains(acc.installed, n)
                   THEN acc.installed
                   ELSE Append(acc.installed, n),
     replaced |-> IF n \in DOMAIN acc.Packages /\ acc.Packages[n] # e /\ replace
                  THEN acc.replaced \cup {n}
                  ELSE acc.replaced]

RECURSIVE Resolve(_, _, _)
RECURSIVE ResolveOne(_, _, _, _, _)
\* One requested spec, of parsed name n and fetched entry e: skipped when n
\* is installed already (and, under replace, at this very entry), installed
\* with its own dependencies otherwise.
ResolveOne(acc, n, e, rest, replace) ==
    IF IsInstalled(acc, n) /\ (acc.Packages[n] = e \/ ~replace)
    THEN Resolve(acc, rest, replace)
    ELSE Resolve(Resolve(Installed(acc, n, e, replace), e.Depends, replace),
                 rest, replace)

Resolve(acc, specs, replace) ==
    IF specs = <<>> THEN acc
    ELSE ResolveOne(acc, DepName(Head(specs)), Fetch(Head(specs)), Tail(specs),
                    replace)

\* Download(depends, replace) on success: the new lock and tree, the source
\* names installed and the set of superseded names.
Download(st, depends, replace) ==
    Resolve([Packages |-> st.Packages, depTree |-> st.depTree,
             installed |-> <<>>, replaced |-> {}], depends, replace)

(***************************************************************************)
(* processInstalledDependencies.                                           *)
(***************************************************************************)
\* EntrySteps rebuilding the cache before it rewrites the links.
EntrySteps_cacheFirst(pk, pkgLock) ==
    << <<"cache", pkgLock.AppCode, "">> >>
    \o [i \in 1..Len(pkgLock.Depends) |->
           <<"rewrite", pkgLock.AppCode,
             LockEntry(pk, DepName(pkgLock.Depends[i])).AppCode>>]

\* EntrySteps looking the transitive dependency up by its whole spec string
\* instead of its parsed name.
EntrySteps_bySpec(pk, pkgLock) ==
    [i \in 1..Len(pkgLock.Depends) |->
        <<"rewrite", pkgLock.AppCode, LockEntry(pk, pkgLock.Depends[i]).AppCode>>]
    \o << <<"cache", pkgLock.AppCode, "">> >>

\* The steps run for one lock entry: one link rewrite per transitive
\* dependency it lists, then the cache rebuild.
EntrySteps(pk, pkgLock) ==
    [i \in 1..Len(pkgLock.Depends) |->
        <<"rewrite", pkgLock.AppCode,
          LockEntry(pk, DepName(pkgLock.Depends[i])).AppCode>>]
    \o << <<"cache", pkgLock.AppCode, "">> >>

PkgSteps(pk, sourceName) == EntrySteps(pk, LockEntry(pk, sourceName))

RECURSIVE AllSteps(_, _)
AllSteps(pk, installed) ==
    IF installed = <<>> THEN <<>>
    ELSE PkgSteps(pk, Head(installed)) \o AllSteps(pk, Tail(installed))

\* rewriteDepLinks(pkgPath, depAppCode) on success.
rewriteDepLinks(tree, pkgPath, depAppCode) ==
    IF pkgPath \in DOMAIN tree /\ tree[pkgPath].present
    THEN [tree EXCEPT ![pkgPath].links = @ \cup {depAppCode}]
    ELSE tree

\* parser.BuildPackageCache(<pkgPath>/index.json) on success.
BuildPackageCache(tree, pkgPath) ==
    IF pkgPath \in DOMAIN tree /\ tree[pkgPath].present
    THEN [tree EXCEPT ![pkgPath].cache = TRUE]
    ELSE tree

ApplyStep(tree, step) ==
    IF step[1] = "rewrite"
    THEN rewriteDepLinks(tree, step[2], step[3])
    ELSE BuildPackageCache(tree, step[2])

\* The tree after the first n steps have run.
RECURSIVE RunSteps(_, _, _)
RunSteps(tree, steps, n) ==
    IF n = 0 \/ steps = <<>> THEN tree
    ELSE RunSteps(ApplyStep(tree, Head(steps)), Tail(steps), n - 1)

\* Lines 230-237: the error returned when a step fails wraps the error of
\* rewriteDepLinks or BuildPackageCache and adds no name of its own.
StepError(step) ==
    IF step[1] = "rewrite"
    THEN Errorf("failed to rewrite dependency links", "",
                External("rewriteDepLinks", step[2]))
    ELSE Errorf("failed to build cache", "",
                External("BuildPackageCache", step[2]))

\* The pipeline stops at the first failing step: the steps before it have
\* taken effect, no later step runs.  attempted counts the steps started,
\* done the steps finished.
Pipeline(st, steps, attempted, done) ==
    [st |-> [st EXCEPT !.depTree = RunSteps(st.depTree, steps, done)],
     err |-> IF done < attempted THEN "post" ELSE "none",
     error |-> IF done < attempted THEN StepError(steps[attempted]) ELSE NoError,
     trace |-> [i \in 1..attempted |->
                   Ev(steps[i][1], steps[i][2], steps[i][3], i <= done)]]

\* failAt is the position of the step the environment makes fail; no step
\* fails when the pipeline has no such position.
Attempted(steps, failAt) ==
    IF failAt \in 1..Len(steps) THEN failAt ELSE Len(steps)

Done(steps, failAt) ==
    IF failAt \in 1..Len(steps) THEN failAt - 1 ELSE Len(steps)

RunPipeline(st, steps, failAt) ==
    Pipeline(st, steps, Attempted(steps, failAt), Done(steps, failAt))

processInstalledDependencies(st, installed, failAt) ==
    RunPipeline(st, AllSteps(st.Packages, installed), failAt)

(***************************************************************************)
(* installDependencies.                                                    *)
(***************************************************************************)
\* The state Download leaves: it has written the in-memory lock and the tree.
DownloadResult(st, d) ==
    [st EXCEPT !.Packages = d.Packages, !.depTree = d.depTree]

\* Lines 109-112: an error of the post-processing returns nil, nil.
AfterProcess(d, p) ==
    [st |-> p.st, err |-> p.err,
     error |-> IF p.err = "none" THEN NoError
               ELSE Errorf("failed to process installed dependencies", "", p.error),
     installed |-> IF p.err = "none" THEN d.installed ELSE <<>>,
     replaced |-> IF p.err = "none" THEN d.replaced ELSE {},
     trace |-> <<Ev("fetch", "", "", TRUE)>> \o p.trace]

AfterDownload(st, d, failAt) ==
    AfterProcess(d, processInstalledDependencies(
                        DownloadResult(st, d), d.installed, failAt))

\* Lines 104-113.  A failing Download changes nothing and nothing is
\* post-processed.
installDependencies(st, depends, replace, fail) ==
    IF fail.at = "fetch"
    THEN [st |-> st, err |-> "fetch",
          error |-> Errorf("failed to download dependencies", "",
                           External("Download", "")),
          installed |-> <<>>, replaced |-> {},
          trace |-> <<Ev("fetch", "", "", FALSE)>>]
    ELSE AfterDownload(st, Download(st, depends, replace),
                       IF fail.at = "post" THEN fail.k ELSE 0)

(***************************************************************************)
(* Persistence (Package.SaveIndex / Package.SaveIndexLock).                *)
(***************************************************************************)
SaveIndex(st) == [st EXCEPT !.diskIndex = st.Depends]

\* SaveIndexLock writing nothing.
SaveIndexLock_skipped(st) == st

SaveIndexLock(st) == [st EXCEPT !.diskLock = st.Packages]

Outcome(st, err, installed, replaced, trace, error) ==
    [st |-> st, err |-> err, installed |-> installed, replaced |-> replaced,
     trace |-> trace, error |-> error]

SaveIndexError == Errorf("failed to save index", "", External("SaveIndex", ""))

SaveIndexLockError ==
    Errorf("failed to save index lock", "", External("SaveIndexLock", ""))

(***************************************************************************)
(* InstallNewDependencies.                                                 *)
(***************************************************************************)
\* DropReplaced with the filter left out: the superseded specs stay.
DropReplaced_keepsAll(deps, replaced) == deps

\* Lines 56-66: when something was superseded, drop every spec whose parsed
\* name is in replaced.
DropReplaced(deps, replaced) ==
    IF replaced # {}
    THEN SelectSeq(deps, LAMBDA d : DepName(d) \notin replaced)
    ELSE deps

\* AppendNew putting a new spec in front of the list instead of at its end.
RECURSIVE AppendNew_inFront(_, _)
AppendNew_inFront(deps, requested) ==
    IF requested = <<>> THEN deps
    ELSE AppendNew_inFront(IF Contains(deps, Head(requested))
                           THEN deps
                           ELSE <<Head(requested)>> \o deps,
                           Tail(requested))

\* Lines 68-80: append every requested spec that is not in the list already,
\* compared as a whole string.
RECURSIVE AppendNew(_, _)
AppendNew(deps, requested) ==
    IF requested = <<>> THEN deps
    ELSE AppendNew(IF Contains(deps, Head(requested))
                   THEN deps
                   ELSE Append(deps, Head(requested)),
                   Tail(requested))

\* Lines 56-80.
MergeDepends(deps, replaced, requested) ==
    AppendNew(DropReplaced(deps, replaced), requested)

\* PersistNew saving the Lock Snapshot before the Manifest.
PersistNew_lockFirst(st, r, fail) ==
    IF fail.at = "saveIndex"
    THEN Outcome(SaveIndexLock(st), "saveIndex", <<>>, r.replaced,
                 r.trace \o <<Ev("saveLock", "", "", TRUE),
                              Ev("saveIndex", "", "", FALSE)>>, SaveIndexError)
    ELSE IF fail.at = "saveLock"
    THEN Outcome(st, "saveLock", <<>>, r.replaced,
                 Append(r.trace, Ev("saveLock", "", "", FALSE)), SaveIndexLockError)
    ELSE Outcome(SaveIndex(SaveIndexLock(st)), "none", r.installed, r.replaced,
                 r.trace \o <<Ev("saveLock", "", "", TRUE),
                              Ev("saveIndex", "", "", TRUE)>>, NoError)

\* Lines 82-90: save the Manifest, then the Lock Snapshot; the first failing
\* save returns.
PersistNew(st, r, fail) ==
    IF fail.at = "saveIndex"
    THEN Outcome(st, "saveIndex", <<>>, r.replaced,
                 Append(r.trace, Ev("saveIndex", "", "", FALSE)), SaveIndexError)
    ELSE IF fail.at = "saveLock"
    THEN Outcome(SaveIndex(st), "saveLock", <<>>, r.replaced,
                 r.trace \o <<Ev("saveIndex", "", "", TRUE),
                              Ev("saveLock", "", "", FALSE)>>, SaveIndexLockError)
    ELSE Outcome(SaveIndexLock(SaveIndex(st)), "none", r.installed, r.replaced,
                 r.trace \o <<Ev("saveIndex", "", "", TRUE),
                              Ev("saveLock", "", "", TRUE)>>, NoError)

\* FinishInstallNew merging and saving before it looks at the error.
FinishInstallNew_savesFirst(r, depends, fail) ==
    IF r.err # "none"
    THEN Outcome(SaveIndexLock(SaveIndex(
                     [r.st EXCEPT !.Depends = MergeDepends(@, r.replaced, depends)])),
                 r.err, <<>>, {}, r.trace,
                 Errorf("failed to install dependencies", "", r.error))
    ELSE PersistNew([r.st EXCEPT !.Depends = MergeDepends(@, r.replaced, depends)],
                    r, fail)

\* Lines 51-90, r being what installDependencies returned.
FinishInstallNew(r, depends, fail) ==
    IF r.err # "none"
    THEN Outcome(r.st, r.err, <<>>, {}, r.trace,
                 Errorf("failed to install dependencies", "", r.error))
    ELSE PersistNew([r.st EXCEPT !.Depends = MergeDepends(@, r.replaced, depends)],
                    r, fail)

InstallNewDependencies(st, depends, replace, fail) ==
    FinishInstallNew(installDependencies(st, depends, replace, fail), depends, fail)

(***************************************************************************)
(* InstallIndexDependencies.                                               *)
(***************************************************************************)
\* The lock entries of the source names in installed alone.
OnlyInstalled(pk, installed) ==
    [n \in {m \in DOMAIN pk : Contains(installed, m)} |-> pk[n]]

\* FinishInstallIndex writing a Lock Snapshot of this run's installs alone.
FinishInstallIndex_locksInstalledOnly(r, fail) ==
    IF r.err # "none"
    THEN Outcome(r.st, r.err, <<>>, {}, r.trace,
                 Errorf("failed to install index dependencies", "", r.error))
    ELSE IF fail.at = "saveLock"
    THEN Outcome(r.st, "saveLock", <<>>, {},
                 Append(r.trace, Ev("saveLock", "", "", FALSE)), SaveIndexLockError)
    ELSE Outcome([r.st EXCEPT !.diskLock = OnlyInstalled(r.st.Packages, r.installed)],
                 "none", r.installed, {},
                 Append(r.trace, Ev("saveLock", "", "", TRUE)), NoError)

\* Lines 95-101, r being what installDependencies returned.
FinishInstallIndex(r, fail) ==
    IF r.err # "none"
    THEN Outcome(r.st, r.err, <<>>, {}, r.trace,
                 Errorf("failed to install index dependencies", "", r.error))
    ELSE IF fail.at = "saveLock"
    THEN Outcome(r.st, "saveLock", <<>>, {},
                 Append(r.trace, Ev("saveLock", "", "", FALSE)), SaveIndexLockError)
    ELSE Outcome(SaveIndexLock(r.st), "none", r.installed, {},
                 Append(r.trace, Ev("saveLock", "", "", TRUE)), NoError)

\* InstallIndexDependencies asking the resolver to replace.
InstallIndexDependencies_replacing(st, fail) ==
    FinishInstallIndex(installDependencies(st, st.Depends, TRUE, fail), fail)

\* Line 94: the current Manifest.Depends, replace = false.
InstallIndexDependencies(st, fail) ==
    FinishInstallIndex(installDependencies(st, st.Depends, FALSE, fail), fail)

(***************************************************************************)
(* The environment's choices.                                              *)
(***************************************************************************)
RECURSIVE SeqsUpTo(_, _)
SeqsUpTo(S, n) ==
    IF n = 0 THEN {<<>>}
    ELSE LET shorter == SeqsUpTo(S, n - 1)
         IN  shorter \cup {Append(q, x) : q \in shorter, x \in S}

NoRepeat(q) == \A i, j \in 1..Len(q) : q[i] = q[j] => i = j

\* The lists a caller requests.  A spec repeated in one list is found in
\* Manifest.Depends the second time round and changes nothing, so the lists
\* are taken without repetition.
Requests == {q \in SeqsUpTo(Pool, MaxReq) : NoRepeat(q)}

NoFail == [at |-> "none", k |-> 0]

Failures ==
    {[at |-> a, k |-> 0] : a \in {"none", "fetch", "saveIndex", "saveLock"}}
    \cup {[at |-> "post", k |-> k] : k \in 1..MaxFailStep}

\* A manifest as its author wrote it: unique by parsed name.
InitManifests == {d \in SeqsUpTo(Pool, MaxInit) : UniqueByName(d)}

\* last when no call has been made by the process yet.
NoCall ==
    [op |-> "none", depends |-> <<>>, replace |-> FALSE, fail |-> NoFail,
     err |-> "none", installed |-> <<>>, replaced |-> {}, trace |-> <<>>,
     pre |-> <<>>, prev |-> "first", error |-> NoError]

NoIdeal == [set |-> FALSE, Depends |-> <<>>, diskLock |-> EmptyLock, depTree |-> EmptyTree]

IdealOf(o) ==
    [set |-> TRUE, Depends |-> o.st.Depends, diskLock |-> o.st.diskLock,
     depTree |-> o.st.depTree]

\* A process makes one call and may re-run it (same operation, same
\* arguments, no failure this time) before it ends; any other call is made
\* by the next process.
CanCall(op, depends, replace, fail) ==
    \/ last.op = "none"
    \/ /\ last.op = op
       /\ last.depends = depends
       /\ last.replace = replace
       /\ fail.at = "none"

\* The call is a re-run of the last call.
IsRerun(op) == last.op = op

\* The outcome o happened with the failure the environment chose.
Happened(o, fail) ==
    o.err = fail.at /\ (fail.at = "post" \/ fail.k = 0)

Commit(op, depends, replace, fail, o, noFail) ==
    /\ CanCall(op, depends, replace, fail)
    /\ Happened(o, fail)
    /\ Depends' = o.st.Depends
    /\ Packages' = o.st.Packages
    /\ diskIndex' = o.st.diskIndex
    /\ diskLock' = o.st.diskLock
    /\ depTree' = o.st.depTree
    /\ last' = [op |-> op, depends |-> depends, replace |-> replace, fail |-> fail,
                err |-> o.err, installed |-> o.installed, replaced |-> o.replaced,
                trace |-> o.trace, pre |-> Depends,
                prev |-> IF last.op = "none" THEN "first" ELSE last.err,
                error |-> o.error]
    /\ ideal' = IF IsRerun(op) THEN ideal
                ELSE IF fail.at = "none" THEN NoIdeal
                ELSE IdealOf(noFail)
    /\ UNCHANGED <<fsVars, bundleVars, valCall, packVars>>

(***************************************************************************)
(* Actions: one per exported operation.                                    *)
(***************************************************************************)
Init ==
    /\ Depends \in InitManifests
    /\ diskIndex = Depends
    /\ Packages = EmptyLock
    /\ diskLock = EmptyLock
    /\ depTree = EmptyTree
    /\ last = NoCall
    /\ ideal = NoIdeal
    /\ FsIdle
    /\ BundleIdle
    /\ ValidateIdle
    /\ PackIdle

InstallNew ==
    \E depends \in Requests, replace \in BOOLEAN, fail \in Failures :
        Commit("InstallNew", depends, replace, fail,
               InstallNewDependencies(State, depends, replace, fail),
               InstallNewDependencies(State, depends, replace, NoFail))

InstallIndex ==
    \E fail \in Failures :
        Commit("InstallIndex", Depends, FALSE, fail,
               InstallIndexDependencies(State, fail),
               InstallIndexDependencies(State, NoFail))

\* The process that made the last call ends, and New(idxFile) builds a fresh
\* PackageManager from the files on disk.
New ==
    /\ last.op # "none"
    /\ Depends' = diskIndex
    /\ Packages' = diskLock
    /\ UNCHANGED <<diskIndex, diskLock, depTree>>
    /\ last' = NoCall
    /\ ideal' = NoIdeal
    /\ UNCHANGED <<fsVars, bundleVars, valCall, packVars>>

Next == InstallNew \/ InstallIndex \/ New

Spec == Init /\ [][Next]_vars


(***************************************************************************)
(* The installer at rest, for the specifications of the other components.  *)
(***************************************************************************)
InstallIdle ==
    /\ Depends = <<>>
    /\ diskIndex = <<>>
    /\ Packages = EmptyLock
    /\ diskLock = EmptyLock
    /\ depTree = EmptyTree
    /\ last = NoCall
    /\ ideal = NoIdeal

(***************************************************************************)
(* pkg/filesys: the file system.  A path is the sequence of its names; the *)
(* root <<>> is a directory that always exists.  fs maps every other path  *)
(* that exists to "dir" or, for a file, to its contents.                   *)
(***************************************************************************)
\* The longest path the file system accepts (ENAMETOOLONG beyond it).
PathMax == 4

\* The names of directory entries, in the order ReadDir lists them.
Names == <<"d", "s">>
NameSet == {Names[i] : i \in 1..Len(Names)}
Contents == {"f", "g"}

IsPrefix(p, q) == Len(p) <= Len(q) /\ SubSeq(q, 1, Len(p)) = p

\* filepath.Dir.
Dir(p) == SubSeq(p, 1, Len(p) - 1)

Kind(f, p) == IF p = <<>> THEN "dir" ELSE IF p \in DOMAIN f THEN f[p] ELSE "none"

IsFile(f, p) == Kind(f, p) \in Contents

\* A proper prefix of p is a file: every access to p fails with ENOTDIR.
Blocked(f, p) == \E k \in 1..(Len(p) - 1) : IsFile(f, SubSeq(p, 1, k))

\* The tree at p: the kind of p and of everything below it, by relative path.
Tree(f, p) ==
    [r \in {SubSeq(q, Len(p) + 1, Len(q)) : q \in {x \in DOMAIN f : IsPrefix(p, x)}}
        |-> f[p \o r]]

\* The result of a file-system call: the file system it leaves, and whether
\* it returned nil.
Failed(f) == [fs |-> f, ok |-> FALSE]
Succeeded(f) == [fs |-> f, ok |-> TRUE]

\* os.Stat(p): "ok" when p exists, "notfound" when it does not (ENOENT),
\* "error" for any other error (ENOTDIR: a file stands in the way).
Stat(f, p) ==
    IF Blocked(f, p) THEN "error"
    ELSE IF Kind(f, p) = "none" THEN "notfound"
    ELSE "ok"

\* os.RemoveAll(p): p and everything below it is gone; a p that does not
\* exist is no error.
RemoveAll(f, p) ==
    IF Blocked(f, p) THEN Failed(f)
    ELSE Succeeded([q \in {x \in DOMAIN f : ~IsPrefix(p, x)} |-> f[q]])

\* os.MkdirAll(p): p and every missing parent become directories; a p that
\* is a directory already is no error.
MkdirAll(f, p) ==
    IF Blocked(f, p) \/ IsFile(f, p) \/ Len(p) > PathMax
    THEN Failed(f)
    ELSE Succeeded([q \in DOMAIN f \cup {SubSeq(p, 1, k) : k \in 1..Len(p)} |->
                       IF q \in DOMAIN f THEN f[q] ELSE "dir"])

\* The directory entries below p.
Below(f, p) == {q \in DOMAIN f : IsPrefix(p, q) /\ q # p}

\* os.Rename(src, dst): the tree at src becomes the tree at dst.  It fails
\* when src does not exist, when dst is src's own descendant, when dst's
\* parent is no directory, when dst exists and is of another kind than src
\* or is a directory that is not empty.  Renaming a path to itself changes
\* nothing.
CanRename(f, src, dst) ==
    /\ Kind(f, src) # "none"
    /\ ~Blocked(f, src)
    /\ ~Blocked(f, dst)
    /\ Kind(f, Dir(dst)) = "dir"
    /\ (IsPrefix(src, dst) => src = dst)
    /\ ~(IsPrefix(dst, src) /\ src # dst)
    /\ Kind(f, dst) # "none" =>
           /\ IsFile(f, dst) <=> IsFile(f, src)
           /\ Below(f, dst) = {}
    /\ \A q \in DOMAIN f :
           IsPrefix(src, q) => Len(dst) + Len(q) - Len(src) <= PathMax

Moved(f, src, dst) ==
    LET kept == {q \in DOMAIN f : ~IsPrefix(src, q) /\ ~IsPrefix(dst, q)}
        moved == {dst \o SubSeq(q, Len(src) + 1, Len(q)) :
                      q \in {x \in DOMAIN f : IsPrefix(src, x)}}
    IN  [q \in kept \cup moved |->
            IF q \in moved
            THEN f[src \o SubSeq(q, Len(dst) + 1, Len(q))]
            ELSE f[q]]

Rename(f, src, dst) ==
    IF ~CanRename(f, src, dst) THEN Failed(f)
    ELSE IF src = dst THEN Succeeded(f)
    ELSE Succeeded(Moved(f, src, dst))

\* ReadDir(p): the names of p's entries, sorted.
Entries(f, p) == SelectSeq(Names, LAMBDA n : (p \o <<n>>) \in DOMAIN f)

\* Writing a regular file at dst (os.Create, io.Copy): dst's parents are
\* created; a directory at dst is an error.
WriteFile(r, dst, content) ==
    IF ~r.ok \/ Kind(r.fs, dst) = "dir" \/ Len(dst) > PathMax
    THEN Failed(r.fs)
    ELSE Succeeded([q \in DOMAIN r.fs \cup {dst} |->
                       IF q = dst THEN content ELSE r.fs[q]])

\* copy.Copy(src, dst) of github.com/otiai10/copy.  A file is written at
\* dst.  For a directory, dst is created, src is listed and every entry is
\* copied in turn below dst; the first error ends the copy.
RECURSIVE Copy(_, _, _)
RECURSIVE CopyEntries(_, _, _, _)
RECURSIVE CopyRest(_, _, _, _)
RECURSIVE CopyDir(_, _, _)
Copy(f, src, dst) ==
    IF Blocked(f, src) \/ Kind(f, src) = "none" THEN Failed(f)
    ELSE IF IsFile(f, src) THEN WriteFile(MkdirAll(f, Dir(dst)), dst, f[src])
    ELSE CopyDir(MkdirAll(f, dst), src, dst)

\* r is the result of creating dst; src is listed after that.
CopyDir(r, src, dst) ==
    IF ~r.ok THEN r ELSE CopyEntries(r, src, dst, Entries(r.fs, src))

\* r is the result of the previous step, names the entries still to copy.
CopyEntries(r, src, dst, names) ==
    IF ~r.ok \/ names = <<>> THEN r
    ELSE CopyRest(r.fs, src, dst, names)

CopyRest(f, src, dst, names) ==
    CopyEntries(Copy(f, src \o <<Head(names)>>, dst \o <<Head(names)>>),
                src, dst, Tail(names))

(***************************************************************************)
(* pkg/filesys: ReplaceWithCopy and ReplaceWithMove.                       *)
(***************************************************************************)
\* One step of a helper, as recorded in fsCall.trace: the step and how it
\* ended ("ok", "error" and, for the stat, "notfound").
FsStep(name, outcome) == <<name, outcome>>

FsResult(f, err, trace) == [fs |-> f, err |-> err, trace |-> trace]

\* The step the environment makes fail returns an error and does nothing.
Inject(fail, name, f, r) == IF fail = name THEN Failed(f) ELSE r

\* The last step of a helper: r is its result.
LastStep(r, name, trace) ==
    IF r.ok
    THEN FsResult(r.fs, "none", Append(trace, FsStep(name, "ok")))
    ELSE FsResult(r.fs, name, Append(trace, FsStep(name, "error")))


\* Lines 26-29, r being the result of MkdirAll(dst).
CopyAfterMkdir(r, src, dst, fail, trace) ==
    IF ~r.ok
    THEN FsResult(r.fs, "mkdir", Append(trace, FsStep("mkdir", "error")))
    ELSE LastStep(Inject(fail, "copy", r.fs, Copy(r.fs, src, dst)), "copy",
                  Append(trace, FsStep("mkdir", "ok")))

\* Lines 22-24.
CopyMkdir(f, src, dst, fail, trace) ==
    CopyAfterMkdir(Inject(fail, "mkdir", f, MkdirAll(f, dst)), src, dst, fail, trace)

\* Lines 15-17, r being the result of RemoveAll(dst).
CopyAfterRemove(r, src, dst, fail, trace) ==
    IF ~r.ok
    THEN FsResult(r.fs, "remove", Append(trace, FsStep("remove", "error")))
    ELSE CopyMkdir(r.fs, src, dst, fail, Append(trace, FsStep("remove", "ok")))

\* ReplaceWithCopy going on after a stat error.
CopyAfterStat_ignoresError(f, st, src, dst, fail) ==
    IF st = "ok"
    THEN CopyAfterRemove(Inject(fail, "remove", f, RemoveAll(f, dst)), src, dst, fail,
                         <<FsStep("stat", "ok")>>)
    ELSE CopyMkdir(f, src, dst, fail, <<FsStep("stat", st)>>)

\* Lines 14-20, st being the result of os.Stat(dst): an existing dst is
\* removed, a dst that is not found is not, any other error is returned.
CopyAfterStat(f, st, src, dst, fail) ==
    IF st = "ok"
    THEN CopyAfterRemove(Inject(fail, "remove", f, RemoveAll(f, dst)), src, dst, fail,
                         <<FsStep("stat", "ok")>>)
    ELSE IF st = "notfound"
    THEN CopyMkdir(f, src, dst, fail, <<FsStep("stat", "notfound")>>)
    ELSE FsResult(f, "stat", <<FsStep("stat", "error")>>)

ReplaceWithCopy(f, src, dst, fail) ==
    CopyAfterStat(f, IF fail = "stat" THEN "error" ELSE Stat(f, dst), src, dst, fail)

\* Lines 41-44, r being the result of MkdirAll(filepath.Dir(dst)).
MoveAfterMkdir(r, src, dst, fail, trace) ==
    IF ~r.ok
    THEN FsResult(r.fs, "mkdir", Append(trace, FsStep("mkdir", "error")))
    ELSE LastStep(Inject(fail, "rename", r.fs, Rename(r.fs, src, dst)), "rename",
                  Append(trace, FsStep("mkdir", "ok")))

\* MoveAfterRemove copying src to dst where it should rename it.
MoveAfterRemove_copies(r, src, dst, fail) ==
    IF ~r.ok
    THEN FsResult(r.fs, "remove", <<FsStep("remove", "error")>>)
    ELSE LastStep(Inject(fail, "rename", r.fs, Copy(r.fs, src, dst)), "rename",
                  <<FsStep("remove", "ok"), FsStep("mkdir", "ok")>>)

\* Lines 33-39, r being the result of RemoveAll(dst).
MoveAfterRemove(r, src, dst, fail) ==
    IF ~r.ok
    THEN FsResult(r.fs, "remove", <<FsStep("remove", "error")>>)
    ELSE MoveAfterMkdir(Inject(fail, "mkdir", r.fs, MkdirAll(r.fs, Dir(dst))),
                        src, dst, fail, <<FsStep("remove", "ok")>>)

ReplaceWithMove(f, src, dst, fail) ==
    MoveAfterRemove(Inject(fail, "remove", f, RemoveAll(f, dst)), src, dst, fail)

(***************************************************************************)
(* The helpers' environment: a file system of depth two, one call.         *)
(***************************************************************************)
\* The paths a caller passes, and the paths that exist before the call.
ArgPaths == {<<a>> : a \in NameSet} \cup {<<a, b>> : a \in NameSet, b \in NameSet}

\* Every existing path has a directory for parent.
WellFormed(k) ==
    \A p \in ArgPaths :
        (k[p] # "none" /\ Len(p) > 1) => k[Dir(p)] = "dir"

InitFiles ==
    {[p \in {q \in ArgPaths : k[q] # "none"} |-> k[p]] :
        k \in {x \in [ArgPaths -> {"none", "dir"} \cup Contents] : WellFormed(x)}}

CopyFailures == {"none", "stat", "remove", "mkdir", "copy"}
MoveFailures == {"none", "remove", "mkdir", "rename"}

\* The call happened with the failure the environment chose.
FsCommit(op, src, dst, fail, r) ==
    /\ fsCall.op = "none"
    /\ fail # "none" => r.err = fail
    /\ fs' = r.fs
    /\ fsCall' = [op |-> op, src |-> src, dst |-> dst, fail |-> fail, pre |-> fs,
                  err |-> r.err, trace |-> r.trace]
    /\ UNCHANGED <<installVars, bundleVars, valCall, packVars>>

InitFs ==
    /\ fs \in InitFiles
    /\ fsCall = NoFsCall
    /\ InstallIdle
    /\ BundleIdle
    /\ ValidateIdle
    /\ PackIdle

CallReplaceWithCopy ==
    \E src \in ArgPaths, dst \in ArgPaths, fail \in CopyFailures :
        FsCommit("ReplaceWithCopy", src, dst, fail, ReplaceWithCopy(fs, src, dst, fail))

CallReplaceWithMove ==
    \E src \in ArgPaths, dst \in ArgPaths, fail \in MoveFailures :
        FsCommit("ReplaceWithMove", src, dst, fail, ReplaceWithMove(fs, src, dst, fail))

NextFs == CallReplaceWithCopy \/ CallReplaceWithMove

SpecFs == InitFs /\ [][NextFs]_vars

(***************************************************************************)
(* pkg/bundle: Bundle.Read.                                                *)
(***************************************************************************)
\* The documents an index file and an index lock file can hold.
IndexDocs == {[AppCode |-> a, Depends |-> d] : a \in {"p", "q"}, d \in {<<>>, <<SpecB>>}}
IndexLockDocs == {[Version |-> "v1", SourceInfo |-> i] : i \in SUBSET {"a", "b"}}

\* A file is absent, damaged, or holds a document.
Unreadable == {"absent", "corrupt"}

IndexFiles ==
    {[kind |-> "doc", doc |-> d] : d \in IndexDocs}
    \cup {[kind |-> k, doc |-> NewIndex] : k \in Unreadable}

IndexLockFiles ==
    {[kind |-> "doc", doc |-> d] : d \in IndexLockDocs}
    \cup {[kind |-> k, doc |-> NewIndexLock] : k \in Unreadable}

\* ReadIndex(BaseDir) / ReadIndexLock(BaseDir): the document of the file,
\* or an error; fail is a read error the environment chose.
ReadFile(file, fail) ==
    [ok |-> ~fail /\ file.kind = "doc", doc |-> file.doc]

BundleResult(idx, idxLock, err) == [Index |-> idx, IndexLock |-> idxLock, err |-> err]

\* Read installing the index as soon as it has read it.
ReadBoth_indexFirst(b, idx, idxLock) ==
    IF ~idx.ok THEN BundleResult(b.Index, b.IndexLock, "read index file")
    ELSE IF ~idxLock.ok THEN BundleResult(idx.doc, b.IndexLock, "read index lock")
    ELSE BundleResult(idx.doc, idxLock.doc, "none")

\* Lines 66-77, idx and idxLock being the results of the two reads; the
\* lock is read only when the index was.
ReadBoth(b, idx, idxLock) ==
    IF ~idx.ok THEN BundleResult(b.Index, b.IndexLock, "read index file")
    ELSE IF ~idxLock.ok THEN BundleResult(b.Index, b.IndexLock, "read index lock")
    ELSE BundleResult(idx.doc, idxLock.doc, "none")

Read(b, dir, fail) ==
    ReadBoth(b, ReadFile(dir.index, fail = "index"), ReadFile(dir.lock, fail = "lock"))

ReadFailures == {"none", "index", "lock"}

InitBundle ==
    /\ BundleIdle
    /\ InstallIdle
    /\ FsIdle
    /\ ValidateIdle
    /\ PackIdle

\* Someone writes, damages or deletes the files under BaseDir.
WriteBaseDir ==
    /\ \E i \in IndexFiles, l \in IndexLockFiles :
           baseDir' = [index |-> i, lock |-> l]
    /\ readCall' = NoReadCall
    /\ UNCHANGED <<Index, IndexLock, installVars, fsVars, valCall, packVars>>

ReadCommit(fail, r) ==
    /\ fail = "index" => r.err = "read index file"
    /\ fail = "lock" => r.err = "read index lock"
    /\ Index' = r.Index
    /\ IndexLock' = r.IndexLock
    /\ readCall' = [op |-> "Read", fail |-> fail, err |-> r.err, Index |-> Index,
                    IndexLock |-> IndexLock]
    /\ UNCHANGED <<baseDir, installVars, fsVars, valCall, packVars>>

CallRead ==
    \E fail \in ReadFailures :
        ReadCommit(fail, Read([Index |-> Index, IndexLock |-> IndexLock], baseDir, fail))

NextBundle == WriteBaseDir \/ CallRead

SpecBundle == InitBundle /\ [][NextBundle]_vars

(***************************************************************************)
(* pkg/pacman: Validate.                                                   *)
(***************************************************************************)
\* parser.MetadataCacheFile, the name of the derived metadata cache file.
MetadataCacheFile == ".cache"

\* One step of Validate, as recorded in valCall.trace: kind, the directory
\* .dep/<installed identifier> it read from, ok.
VStep(kind, dir, ok) == <<kind, dir, ok>>

\* What Validate returns (a []error) and the steps it ran.
VResult(errors, trace) == [errors |-> errors, trace |-> trace]

\* A violation the validation engine reports.
Violation(v) == << <<"violation", v>> >>
ViolationLists ==
    {<<>>, <<Violation("v1")>>, <<Violation("v1"), Violation("v2")>>}

\* The manifest of the dependency installed at appCode can be read; the
\* environment may make the read fail.
IndexReadable(tree, appCode, fail) ==
    /\ appCode \in DOMAIN tree
    /\ tree[appCode].present
    /\ ~(fail.at = "index" /\ fail.dep = appCode)

\* Its metadata cache file can be read.
CacheReadable(tree, appCode, fail) ==
    /\ tree[appCode].cache
    /\ ~(fail.at = "cache" /\ fail.dep = appCode)

RECURSIVE LoadDeps(_, _, _, _, _, _)
RECURSIVE LoadDep(_, _, _, _, _, _, _)
\* LoadDep going on with the next dependency after an error, and handing
\* the errors it met to the caller together with the violations.
LoadDep_keepsGoing(pk, tree, dep, rest, fail, violations, trace) ==
    IF ~IndexReadable(tree, dep.AppCode, fail)
    THEN LoadDeps(pk, tree, rest, fail,
                  <<Errorf("failed to read index file for", dep.AppCode,
                           External("ReadIndexFile", dep.AppCode))>> \o violations,
                  Append(trace, VStep("index", dep.AppCode, FALSE)))
    ELSE IF ~CacheReadable(tree, dep.AppCode, fail)
    THEN LoadDeps(pk, tree, rest, fail,
                  <<Errorf("failed to add entities from", MetadataCacheFile,
                           External("AddFromFile", dep.AppCode))>> \o violations,
                  trace \o <<VStep("index", dep.AppCode, TRUE),
                             VStep("cache", dep.AppCode, FALSE)>>)
    ELSE LoadDeps(pk, tree, rest, fail, violations,
                  trace \o <<VStep("index", dep.AppCode, TRUE),
                             VStep("cache", dep.AppCode, TRUE)>>)

\* Lines 128-135, for one entry dep of IndexLock.Packages.
LoadDep(pk, tree, dep, rest, fail, violations, trace) ==
    IF ~IndexReadable(tree, dep.AppCode, fail)
    THEN VResult(<<Errorf("failed to read index file for", dep.AppCode,
                          External("ReadIndexFile", dep.AppCode))>>,
                 Append(trace, VStep("index", dep.AppCode, FALSE)))
    ELSE IF ~CacheReadable(tree, dep.AppCode, fail)
    THEN VResult(<<Errorf("failed to add entities from", MetadataCacheFile,
                          External("AddFromFile", dep.AppCode))>>,
                 trace \o <<VStep("index", dep.AppCode, TRUE),
                            VStep("cache", dep.AppCode, FALSE)>>)
    ELSE LoadDeps(pk, tree, rest, fail, violations,
                  trace \o <<VStep("index", dep.AppCode, TRUE),
                             VStep("cache", dep.AppCode, TRUE)>>)

\* Lines 127-138: the loop over IndexLock.Packages, in the order the map
\* yields its entries, then ValidateAll.
LoadDeps(pk, tree, order, fail, violations, trace) ==
    IF order = <<>>
    THEN VResult(violations, Append(trace, VStep("ValidateAll", "", TRUE)))
    ELSE LoadDep(pk, tree, pk[Head(order)], Tail(order), fail, violations, trace)

\* Lines 116-126: a failure before the loop returns the one error.
Validate(pk, tree, order, fail, violations) ==
    IF fail.at = "parse"
    THEN VResult(<<Errorf("failed to parse package", "", External("ParsePackage", ""))>>,
                 <<VStep("parse", "", FALSE)>>)
    ELSE IF fail.at = "dump"
    THEN VResult(<<Errorf("failed to dump cache", "", External("DumpCache", ""))>>,
                 <<VStep("parse", "", TRUE), VStep("dump", "", FALSE)>>)
    ELSE IF fail.at = "add"
    THEN VResult(<<Errorf("failed to add entities", "", External("AddEntities", ""))>>,
                 <<VStep("parse", "", TRUE), VStep("dump", "", TRUE),
                   VStep("add", "", FALSE)>>)
    ELSE LoadDeps(pk, tree, order, fail, violations,
                  <<VStep("parse", "", TRUE), VStep("dump", "", TRUE),
                    VStep("add", "", TRUE)>>)

\* The orders a Go map of these keys can be ranged over in.
Orders(S) ==
    {q \in SeqsUpTo(S, Cardinality(S)) : Len(q) = Cardinality(S) /\ NoRepeat(q)}

ValidateFailures ==
    {[at |-> a, dep |-> ""] : a \in {"none", "parse", "dump", "add"}}
    \cup {[at |-> a, dep |-> c] : a \in {"index", "cache"}, c \in AppCodes}

\* A package before any call of its PackageManager.
EmptyState ==
    [Depends |-> <<>>, Packages |-> EmptyLock, diskIndex |-> <<>>,
     diskLock |-> EmptyLock, depTree |-> EmptyTree]

\* The package as an InstallNewDependencies call, failed or not, left it.
InitValidate ==
    /\ \E depends \in Requests, fail \in Failures :
           /\ Happened(InstallNewDependencies(EmptyState, depends, FALSE, fail), fail)
           /\ Depends = InstallNewDependencies(EmptyState, depends, FALSE, fail).st.Depends
           /\ Packages = InstallNewDependencies(EmptyState, depends, FALSE, fail).st.Packages
           /\ depTree = InstallNewDependencies(EmptyState, depends, FALSE, fail).st.depTree
           /\ diskIndex =
                  InstallNewDependencies(EmptyState, depends, FALSE, fail).st.diskIndex
           /\ diskLock =
                  InstallNewDependencies(EmptyState, depends, FALSE, fail).st.diskLock
    /\ last = NoCall
    /\ ideal = NoIdeal
    /\ ValidateIdle
    /\ FsIdle
    /\ BundleIdle
    /\ PackIdle

\* Someone deletes the directory of an installed dependency, or its
\* metadata cache file.
DamageDep ==
    /\ valCall.op = "none"
    /\ \E c \in AppCodes :
           /\ depTree[c].present
           /\ \/ depTree' = [depTree EXCEPT ![c] = NoDir]
              \/ depTree[c].cache /\ depTree' = [depTree EXCEPT ![c].cache = FALSE]
    /\ UNCHANGED <<Depends, Packages, diskIndex, diskLock, last, ideal, valCall,
                   fsVars, bundleVars, packVars>>

\* The failure the environment chose is the one the call met.
ValHappened(fail, r) ==
    fail.at # "none" =>
        r.trace[Len(r.trace)] = VStep(fail.at, fail.dep, FALSE)

CallValidate ==
    /\ valCall.op = "none"
    /\ \E order \in Orders(DOMAIN Packages), fail \in ValidateFailures,
          violations \in ViolationLists :
           /\ ValHappened(fail, Validate(Packages, depTree, order, fail, violations))
           /\ valCall' = [op |-> "Validate", fail |-> fail, order |-> order,
                          errors |-> Validate(Packages, depTree, order, fail,
                                              violations).errors,
                          trace |-> Validate(Packages, depTree, order, fail,
                                             violations).trace]
    /\ UNCHANGED <<installVars, fsVars, bundleVars, packVars>>

NextValidate == DamageDep \/ CallValidate

SpecValidate == InitValidate /\ [][NextValidate]_vars

(***************************************************************************)
(* pkg/pacman: Pack.                                                       *)
(***************************************************************************)
\* Highest position, among the assets a Pack call bundles, at which the
\* environment makes the open, the create or the write fail.
MaxFailAsset == 2

\* The archive entry of the manifest.
IndexEntry == "index.json"

\* Registry.Types: the type T declares the annotations k1 and k2, which
\* mark asset fields, and k3, which does not; there is no type U.
TypeTable ==
    [T |-> [k1 |-> [Asset |-> TRUE], k2 |-> [Asset |-> TRUE], k3 |-> [Asset |-> FALSE]]]

\* The orders a range over T's annotations (a Go map) can take.
KeyOrders == Orders({"k1", "k2", "k3"})

\* cti.GetParentCti: the type an entity identifier derives from.
GetParentCti(c) == IF c \in {"T.e1", "T.e2"} THEN "T" ELSE "U"

\* The entity instances a registry can hold at position i: of type T or of
\* the missing type U, each asset field empty or naming a file.
Entities(i) ==
    {[Cti |-> c, Values |-> [k1 |-> a, k2 |-> b, k3 |-> "x"]] :
        c \in (IF i = 1 THEN {"T.e1", "U.e1"} ELSE {"T.e2", "U.e2"}),
        a \in {"", "p1"}, b \in {"", "p2"}}

Registries ==
    {<<>>} \cup {<<e>> : e \in Entities(1)}
    \cup {<<e1, e2>> : e1 \in Entities(1), e2 \in Entities(2)}

\* The files Pack reads under the package root, each there or not.
FileNames == {"p1", "p2", MetadataCacheFile}
FileSystems ==
    {[f \in FileNames |-> IF f \in present
                          THEN [exists |-> TRUE, data |-> <<"data", f>>]
                          ELSE NoFile] : present \in SUBSET FileNames}

\* Index.Clone() followed by PutSerialized(name), and ToBytes().
PutSerialized(idx, name) ==
    [idx EXCEPT !.Serialized = IF Contains(@, name) THEN @ ELSE Append(@, name)]

ToBytes(idx) == <<"index">> \o idx.Serialized

\* The Manifest Pack clones.
PackIndex == [Depends |-> <<>>, Serialized |-> <<>>]

\* One step of Pack, as recorded in packCall.trace: kind, subject, ok.
PStep(kind, subject, ok) == <<kind, subject, ok>>

\* One entry of the archive; an entry whose write failed is not complete.
Entry(name, data, complete) == [name |-> name, data |-> data, complete |-> complete]

\* What Pack returns once the archive is created, w being the entries
\* written, the number of assets tried and the steps run.  The deferred
\* Close of the zip writer finishes the archive; its error is dropped.
PackReturn(w, err, error, fail) ==
    [archive |-> [exists |-> TRUE, finalized |-> fail.at # "close",
                  entries |-> w.entries],
     err |-> err, error |-> error, count |-> w.count, trace |-> w.trace]

\* How copying file name into the archive ends, as the n-th copy of kind
\* kind ("asset", "meta"): the file cannot be opened, the entry cannot be
\* created, the write fails, or all is well.
CopyOutcome(cx, kind, name, n) ==
    IF ~cx.files[name].exists \/ cx.fail = [at |-> kind \o " open", n |-> n]
    THEN "open"
    ELSE IF cx.fail = [at |-> kind \o " create", n |-> n] THEN "create"
    ELSE IF cx.fail = [at |-> kind \o " copy", n |-> n] THEN "copy"
    ELSE "ok"

\* The working record after the copy of file name ended with outcome.
AfterCopy(w, cx, kind, name, outcome) ==
    [entries |-> IF outcome = "ok"
                 THEN Append(w.entries, Entry(name, cx.files[name].data, TRUE))
                 ELSE IF outcome = "copy"
                 THEN Append(w.entries, Entry(name, <<>>, FALSE))
                 ELSE w.entries,
     count |-> IF kind = "asset" THEN w.count + 1 ELSE w.count,
     trace |-> Append(w.trace, PStep(kind, name, outcome = "ok"))]

\* Lines 171-187: the error of an asset that could not be bundled.
AssetError(assetPath, outcome) ==
    Errorf("failed to bundle asset", assetPath,
           Errorf(IF outcome = "open" THEN "failed to open asset"
                  ELSE IF outcome = "create" THEN "failed to create asset in bundle"
                  ELSE "failed to write asset to bundle",
                  assetPath, External(outcome, assetPath)))

\* Lines 205-217: the error of a metadata cache file that could not be
\* bundled.
MetaError(metadata, outcome) ==
    Errorf(IF outcome = "open" THEN "failed to open serialized metadata"
           ELSE IF outcome = "create"
           THEN "failed to create serialized metadata in bundle"
           ELSE "failed to write serialized metadata to bundle",
           metadata, External(outcome, metadata))

\* Lines 204-220: every listed metadata cache file is copied in turn.
RECURSIVE WriteSerialized(_, _, _)
RECURSIVE MetaDone(_, _, _, _, _)
WriteSerialized(w, cx, names) ==
    IF names = <<>> THEN PackReturn(w, "none", NoError, cx.fail)
    ELSE MetaDone(AfterCopy(w, cx, "meta", Head(names),
                            CopyOutcome(cx, "meta", Head(names), 0)),
                  cx, Head(names), CopyOutcome(cx, "meta", Head(names), 0),
                  Tail(names))

MetaDone(w, cx, name, outcome, rest) ==
    IF outcome # "ok"
    THEN PackReturn(w, "meta " \o outcome, MetaError(name, outcome), cx.fail)
    ELSE WriteSerialized(w, cx, rest)

\* Lines 192-202: the manifest entry, idx being the clone that lists the
\* metadata cache file.
WriteIndex(w, cx, idx) ==
    IF cx.fail.at = "index create"
    THEN PackReturn([w EXCEPT !.trace = Append(@, PStep("index", IndexEntry, FALSE))],
                    "index create",
                    Errorf("failed to create index in bundle", "",
                           External("create", IndexEntry)),
                    cx.fail)
    ELSE IF cx.fail.at = "index write"
    THEN PackReturn([w EXCEPT !.entries = Append(@, Entry(IndexEntry, <<>>, FALSE)),
                              !.trace = Append(@, PStep("index", IndexEntry, FALSE))],
                    "index write",
                    Errorf("failed to write index to bundle", "",
                           External("write", IndexEntry)),
                    cx.fail)
    ELSE WriteSerialized(
             [w EXCEPT !.entries = Append(@, Entry(IndexEntry, ToBytes(idx), TRUE)),
                       !.trace = Append(@, PStep("index", IndexEntry, TRUE))],
             cx, idx.Serialized)

RECURSIVE ScanEntities(_, _, _, _)
RECURSIVE ScanAnnotations(_, _, _, _, _, _)
RECURSIVE AssetDone(_, _, _, _, _, _, _, _)
\* ScanAnnotations skipping an empty asset path and going on with the
\* entity's next annotation.
ScanAnnotations_skipsEmpty(w, cx, entity, keys, rest, orders) ==
    IF keys = <<>> THEN ScanEntities(w, cx, rest, orders)
    ELSE IF ~TypeTable[GetParentCti(entity.Cti)][Head(keys)].Asset
         \/ entity.Values[Head(keys)] = ""
    THEN ScanAnnotations(w, cx, entity, Tail(keys), rest, orders)
    ELSE AssetDone(AfterCopy(w, cx, "asset", entity.Values[Head(keys)],
                             CopyOutcome(cx, "asset", entity.Values[Head(keys)],
                                         w.count + 1)),
                   cx, entity.Values[Head(keys)],
                   CopyOutcome(cx, "asset", entity.Values[Head(keys)], w.count + 1),
                   entity, Tail(keys), rest, orders)

\* Lines 161-189: the annotations of the entity's type, in the order keys:
\* one that marks no asset is passed over, an empty asset path ends the
\* scan of this entity, any other path is bundled.
ScanAnnotations(w, cx, entity, keys, rest, orders) ==
    IF keys = <<>> THEN ScanEntities(w, cx, rest, orders)
    ELSE IF ~TypeTable[GetParentCti(entity.Cti)][Head(keys)].Asset
    THEN ScanAnnotations(w, cx, entity, Tail(keys), rest, orders)
    ELSE IF entity.Values[Head(keys)] = ""
    THEN ScanEntities(w, cx, rest, orders)
    ELSE AssetDone(AfterCopy(w, cx, "asset", entity.Values[Head(keys)],
                             CopyOutcome(cx, "asset", entity.Values[Head(keys)],
                                         w.count + 1)),
                   cx, entity.Values[Head(keys)],
                   CopyOutcome(cx, "asset", entity.Values[Head(keys)], w.count + 1),
                   entity, Tail(keys), rest, orders)

\* AssetDone going on with the scan after an asset that could not be
\* bundled.
AssetDone_goesOn(w, cx, assetPath, outcome, entity, keys, rest, orders) ==
    ScanAnnotations(w, cx, entity, keys, rest, orders)

\* Lines 186-188: an asset that could not be bundled ends Pack.
AssetDone(w, cx, assetPath, outcome, entity, keys, rest, orders) ==
    IF outcome # "ok"
    THEN PackReturn(w, "asset " \o outcome, AssetError(assetPath, outcome), cx.fail)
    ELSE ScanAnnotations(w, cx, entity, keys, rest, orders)

\* Lines 155-190: the entity instances in turn; an entity whose parent type
\* the type table lacks ends Pack; after the last one the manifest entry
\* and the metadata cache files are written.
ScanEntities(w, cx, instances, orders) ==
    IF instances = <<>>
    THEN WriteIndex(w, cx, PutSerialized(PackIndex, MetadataCacheFile))
    ELSE IF GetParentCti(Head(instances).Cti) \notin DOMAIN TypeTable
    THEN PackReturn([w EXCEPT !.trace = Append(@, PStep("entity", Head(instances).Cti,
                                                        FALSE))],
                    "type", Errorf("type not found", Head(instances).Cti, NoError),
                    cx.fail)
    ELSE ScanAnnotations(
             [w EXCEPT !.trace = Append(@, PStep("entity", Head(instances).Cti, TRUE))],
             cx, Head(instances), Head(orders), Tail(instances), Tail(orders))

\* Lines 142-149: a package that cannot be parsed, or an archive that cannot
\* be created, ends Pack with the archive file as it was.
Pack(arch, instances, files, orders, fail) ==
    IF fail.at = "parse"
    THEN [archive |-> arch, err |-> "parse",
          error |-> Errorf("failed to parse package", "", External("ParsePackage", "")),
          count |-> 0, trace |-> <<PStep("parse", "", FALSE)>>]
    ELSE IF fail.at = "archive"
    THEN [archive |-> arch, err |-> "archive",
          error |-> Errorf("failed to create archive", "", External("os.Create", "")),
          count |-> 0,
          trace |-> <<PStep("parse", "", TRUE), PStep("archive", "", FALSE)>>]
    ELSE ScanEntities([entries |-> <<>>, count |-> 0,
                       trace |-> <<PStep("parse", "", TRUE), PStep("archive", "", TRUE)>>],
                      [files |-> files, fail |-> fail], instances, orders)

PackFailures ==
    {[at |-> a, n |-> 0] :
        a \in {"none", "parse", "archive", "index create", "index write",
               "meta open", "meta create", "meta copy", "close"}}
    \cup {[at |-> a, n |-> n] :
             a \in {"asset open", "asset create", "asset copy"}, n \in 1..MaxFailAsset}

\* The call met the failure the environment chose.
PackHappened(fail, r) ==
    /\ fail.at \notin {"none", "close"} => r.err = fail.at
    /\ fail.at = "close" => r.err = "none"
    /\ fail.n > 0 => r.count = fail.n

InitPack ==
    /\ registry \in Registries
    /\ pkgFiles \in FileSystems
    /\ archive = NoArchive
    /\ packCall = NoPackCall
    /\ InstallIdle
    /\ FsIdle
    /\ BundleIdle
    /\ ValidateIdle

PackCommit(orders, fail, r) ==
    /\ PackHappened(fail, r)
    /\ archive' = r.archive
    /\ packCall' = [op |-> "Pack", fail |-> fail, orders |-> orders, err |-> r.err,
                    error |-> r.error, trace |-> r.trace]
    /\ UNCHANGED <<registry, pkgFiles, installVars, fsVars, bundleVars, valCall>>

CallPack ==
    /\ packCall.op = "none"
    /\ \E orders \in [1..Len(registry) -> KeyOrders], fail \in PackFailures :
           PackCommit(orders, fail, Pack(archive, registry, pkgFiles, orders, fail))

NextPack == CallPack

SpecPack == InitPack /\ [][NextPack]_vars

(***************************************************************************)
(* Properties.                                                             *)
(***************************************************************************)
\* The last call was op and returned without error.
CallOk(op) == last.op = op /\ last.err = "none"

\* The last call was InstallNewDependencies(<<s>>, replace = true), it
\* returned without error, the resolver reported the name of s superseded
\* and Manifest.Depends held a spec of that name before the call.
Replaced(s) ==
    /\ CallOk("InstallNew")
    /\ last.replace
    /\ last.depends = <<s>>
    /\ DepName(s) \in last.replaced
    /\ \E i \in 1..Len(last.pre) : DepName(last.pre[i]) = DepName(s)

\* C1: after a successful InstallNewDependencies([A@2], replace=true) on a
\* Manifest.Depends that held a spec named A, with A reported superseded,
\* Manifest.Depends holds exactly one spec whose parsed name is A, and that
\* spec is A@2.
C1_ReplaceSemantics ==
    \A s \in Pool :
        Replaced(s) =>
            /\ Cardinality({i \in 1..Len(Depends) :
                               DepName(Depends[i]) = DepName(s)}) = 1
            /\ \A i \in 1..Len(Depends) :
                   DepName(Depends[i]) = DepName(s) => Depends[i] = s

C1_Witness ==
    /\ Replaced(SpecA2)
    /\ Contains(last.pre, SpecA1)
    /\ Contains(Depends, SpecA2)

\* C2 as stated: the new spec A@2 takes the index A@1 occupied before the
\* call and every other spec keeps its index.
C2_ReplaceKeepsIndex ==
    \A s \in Pool :
        (Replaced(s) /\ UniqueByName(last.pre)) =>
            /\ Len(Depends) = Len(last.pre)
            /\ \A i \in 1..Len(last.pre) :
                   Depends[i] = IF DepName(last.pre[i]) = DepName(s)
                                THEN s
                                ELSE last.pre[i]

\* C2, amended: the new spec A@2 is the last element of Manifest.Depends,
\* whatever index A@1 occupied, and before it stand the specs whose names
\* were not reported superseded, in the order they had before the call.
C2_ReplaceAppendsAtEnd ==
    \A s \in Pool :
        Replaced(s) =>
            Depends = Append(SelectSeq(last.pre,
                                       LAMBDA d : DepName(d) \notin last.replaced),
                             s)

\* A@1 stood before another spec, so its index was not the last one.
C2_Witness ==
    /\ Replaced(SpecA2)
    /\ last.pre = <<SpecA1, SpecB>>
    /\ Depends = <<SpecB, SpecA2>>

\* C3: after a successful InstallNewDependencies(specs, replace=false),
\* Manifest.Depends is the list it was before the call followed by the
\* requested specs whose parsed name was not in it, in the order requested;
\* a requested spec whose parsed name was in it already changes nothing.
C3_AppendSemantics ==
    (CallOk("InstallNew") /\ ~last.replace) =>
        Depends = last.pre \o SelectSeq(last.depends,
                                        LAMBDA d : DepName(d) \notin NamesOf(last.pre))

\* C4: no two specs of Manifest.Depends share a parsed name.
C4_DependsUniqueByName == UniqueByName(Depends)

\* The steps of kind k recorded in trace t, finished or failed.
Has(t, k) == \E i \in 1..Len(t) : t[i][1] = k

C6_FetchFailureChangesNothing ==
    [][last'.fail.at = "fetch" =>
          /\ last'.err # "none"
          /\ Depends' = Depends
          /\ diskIndex' = diskIndex
          /\ diskLock' = diskLock
          /\ ~Has(last'.trace, "rewrite")
          /\ ~Has(last'.trace, "cache")]_vars

C6_Witness ==
    /\ last.op = "InstallNew"
    /\ last.err = "fetch"
    /\ last.depends = <<SpecA2, SpecB>>
    /\ Depends = <<SpecA1>>
    /\ diskLock # EmptyLock

\* C7: in every execution of InstallNewDependencies a save is attempted
\* only after the fetch and the post-processing of every installed
\* dependency have succeeded; the Manifest is saved before the Lock
\* Snapshot; the Lock Snapshot is not saved when the Manifest save fails;
\* when the fetch or the post-processing fails neither file is written and
\* Manifest.Depends is not changed.
C7_PersistOnlyAfterSuccess ==
    [][last'.op = "InstallNew" =>
          LET t == last'.trace
              saves == {i \in 1..Len(t) : t[i][1] \in {"saveIndex", "saveLock"}}
          IN  /\ \A i \in saves :
                     /\ \A j \in 1..(i - 1) : t[j][4]
                     /\ t[1] = Ev("fetch", "", "", TRUE)
                     /\ \A n \in DOMAIN Packages' :
                            Packages'[n] # LockEntry(Packages, n)
                            => \E j \in 1..(i - 1) :
                                   t[j] = Ev("cache", Packages'[n].AppCode, "", TRUE)
              /\ \A i \in saves :
                     t[i][1] = "saveLock"
                     => \E j \in 1..(i - 1) : t[j] = Ev("saveIndex", "", "", TRUE)
              /\ last'.err = "saveIndex" =>
                     (diskLock' = diskLock /\ ~Has(t, "saveLock"))
              /\ last'.err \in {"fetch", "post"} =>
                     /\ saves = {}
                     /\ diskIndex' = diskIndex
                     /\ diskLock' = diskLock
                     /\ Depends' = Depends
              /\ diskIndex' # diskIndex =>
                     \E i \in saves : t[i] = Ev("saveIndex", "", "", TRUE)
              /\ diskLock' # diskLock =>
                     \E i \in saves : t[i] = Ev("saveLock", "", "", TRUE)]_vars

\* A call that fetched, rewrote a link, rebuilt two caches and saved both.
C7_Witness ==
    /\ CallOk("InstallNew")
    /\ Has(last.trace, "rewrite")
    /\ Len(last.trace) = 6
    /\ last.trace[5] = Ev("saveIndex", "", "", TRUE)
    /\ last.trace[6] = Ev("saveLock", "", "", TRUE)
    /\ diskIndex = Depends
    /\ diskLock = Packages

\* C8: InstallIndexDependencies installs the current Manifest.Depends with
\* replace = false; in every execution Manifest.Depends is unchanged and
\* the Manifest file is not written; the Lock Snapshot is written only when
\* the fetch and the post-processing succeeded.
C8_InstallIndexFrame ==
    [][last'.op = "InstallIndex" =>
          /\ Depends' = Depends
          /\ diskIndex' = diskIndex
          /\ ~Has(last'.trace, "saveIndex")
          /\ last'.err # "fetch" =>
                 Packages' = Download(State, Depends, FALSE).Packages
          /\ last'.err \in {"fetch", "post"} =>
                 (diskLock' = diskLock /\ ~Has(last'.trace, "saveLock"))
          /\ diskLock' # diskLock => last'.err = "none"]_vars

C8_Witness ==
    /\ CallOk("InstallIndex")
    /\ Len(Depends) = 2
    /\ last.installed # <<>>
    /\ diskLock = Packages
    /\ NamesOf(Depends) \subseteq DOMAIN diskLock

\* C9: of two successive successful InstallIndexDependencies calls on an
\* unchanged Manifest, the second leaves the persisted Lock Snapshot equal
\* to the one the first wrote.
C9_InstallIndexIdempotent ==
    [][(CallOk("InstallIndex") /\ last'.op = "InstallIndex" /\ last'.err = "none")
          => diskLock' = diskLock]_vars

C9_Witness ==
    /\ CallOk("InstallIndex")
    /\ last.prev = "none"
    /\ Len(Depends) = 2
    /\ NamesOf(Depends) \subseteq DOMAIN diskLock

\* C10: when a call that failed is re-run with the same arguments and no
\* failure, it ends with the Manifest.Depends, the persisted Lock Snapshot
\* and the .dep tree of a run, from the state the failed call started in,
\* that met no failure.
C10_RerunConverges ==
    (last.op # "none" /\ last.err = "none" /\ ideal.set) =>
        /\ Depends = ideal.Depends
        /\ diskLock = ideal.diskLock
        /\ depTree = ideal.depTree

\* The cache rebuilds recorded in trace t, in the order they ran.
CacheEvents(t) == SelectSeq(t, LAMBDA e : e[1] = "cache")

\* The number of cache rebuilds among the first i steps of trace t.
CachesUpTo(t, i) == Cardinality({j \in 1..i : t[j][1] = "cache"})

\* The post-processing recorded in trace t, for the source names installed
\* and the Lock Snapshot pk the resolver left: the order of the steps.
PostOrder(t, installed, pk) ==
    LET caches == CacheEvents(t)
    IN  /\ Len(caches) <= Len(installed)
        /\ \A k \in 1..Len(caches) : caches[k][2] = pk[installed[k]].AppCode
        /\ \A i \in 1..Len(t) :
               t[i][1] = "rewrite" =>
                   /\ ~\E j \in 1..(i - 1) : t[j][1] = "cache" /\ t[j][2] = t[i][2]
                   /\ t[i][2] = pk[installed[CachesUpTo(t, i) + 1]].AppCode
        /\ \A i \in 1..Len(t) :
               (t[i][1] = "cache" /\ t[i][4]) =>
                   \A m \in 1..Len(pk[installed[CachesUpTo(t, i)]].Depends) :
                       \E j \in 1..(i - 1) :
                           /\ t[j] = Ev("rewrite", t[i][2],
                                        pk[DepName(pk[installed[CachesUpTo(t, i)]].Depends[m])].AppCode,
                                        TRUE)
                           /\ CachesUpTo(t, j) = CachesUpTo(t, i) - 1

\* The failing step is the last one and the error names its dependency.
PostAbort(t, err, error) ==
    /\ \A i \in 1..Len(t) : ~t[i][4] => i = Len(t)
    /\ err = "post" =>
           /\ t[Len(t)][1] \in {"rewrite", "cache"}
           /\ ~t[Len(t)][4]
           /\ t[Len(t)][2] \in ErrorNames(error)

\* What the steps that succeeded did is in the tree.
PostEffects(t, tree) ==
    \A i \in 1..Len(t) :
        t[i][4] =>
            /\ t[i][1] = "rewrite" => t[i][3] \in tree[t[i][2]].links
            /\ t[i][1] = "cache" => tree[t[i][2]].cache

PostProcessed(d, call, tree, pk) ==
    /\ PostOrder(call.trace, d.installed, d.Packages)
    /\ call.err # "post" => Len(CacheEvents(call.trace)) = Len(d.installed)
    /\ PostAbort(call.trace, call.err, call.error)
    /\ PostEffects(call.trace, tree)
    /\ pk = d.Packages
    /\ \A k \in 1..Len(d.installed) : tree[d.Packages[d.installed[k]].AppCode].present

C19_CanonicalTargets ==
    /\ \A i \in 1..Len(last.trace) :
           LET e == last.trace[i]
           IN  e[1] \in {"rewrite", "cache"} =>
                   /\ e[2] # ""
                   /\ e[2] \in DOMAIN depTree
                   /\ depTree[e[2]].present
                   /\ \E n \in DOMAIN Packages :
                          /\ Packages[n].AppCode = e[2]
                          /\ e[1] = "rewrite" =>
                                 /\ e[3] # ""
                                 /\ \E m \in 1..Len(Packages[n].Depends) :
                                        LET dn == DepName(Packages[n].Depends[m])
                                        IN  /\ dn \in DOMAIN Packages
                                            /\ Packages[dn].AppCode = e[3]
    /\ (last.op # "none" /\ last.err = "none") =>
           \A k \in 1..Len(last.installed) :
               LET n == last.installed[k]
               IN  /\ n \in DOMAIN Packages
                   /\ \E i \in 1..Len(last.trace) :
                          last.trace[i] = Ev("cache", Packages[n].AppCode, "", TRUE)
                   /\ \A m \in 1..Len(Packages[n].Depends) :
                          \E i \in 1..Len(last.trace) :
                              /\ last.trace[i][1] = "rewrite"
                              /\ last.trace[i][2] = Packages[n].AppCode
                              /\ last.trace[i][3] =
                                     LockEntry(Packages,
                                               DepName(Packages[n].Depends[m])).AppCode

\* A successful install of a@2: a's link to b, declared as b@1, is rewritten
\* to b's installed identifier inside a's own directory.
C19_Witness ==
    /\ CallOk("InstallIndex")
    /\ last.installed = <<<<"a">>, <<"b">>>>
    /\ Packages[<<"a">>].Depends = <<SpecB1>>
    /\ \E i \in 1..Len(last.trace) : last.trace[i] = Ev("rewrite", "x", "y", TRUE)

\* The helper op was called and returned nil.
FsOk(op) == fsCall.op = op /\ fsCall.err = "none"

\* C11: when ReplaceWithMove(src, dst) returns without error, src no longer
\* exists and the tree at dst is the tree src held before the call, with
\* nothing of what dst held before.
C11_MovePostcondition ==
    FsOk("ReplaceWithMove") =>
        /\ Kind(fs, fsCall.src) = "none"
        /\ Below(fs, fsCall.src) = {}
        /\ Kind(fsCall.pre, fsCall.src) # "none"
        /\ Tree(fs, fsCall.dst) = Tree(fsCall.pre, fsCall.src)

\* The directory s, holding a file, moved onto the directory d, which held
\* another file and a directory.
C11_Witness ==
    /\ FsOk("ReplaceWithMove")
    /\ fsCall.src = <<"s">>
    /\ fsCall.dst = <<"d">>
    /\ fsCall.pre = (<<"s">> :> "dir" @@ <<"s", "s">> :> "f" @@ <<"d">> :> "dir"
                     @@ <<"d", "d">> :> "g" @@ <<"d", "s">> :> "dir")
    /\ fs = (<<"d">> :> "dir" @@ <<"d", "s">> :> "f")

\* C12: when ReplaceWithCopy(src, dst) is called on a src that exists and
\* returns without error, src exists with the tree it had before the call
\* and the tree at dst equals it, with nothing of what dst held before.
C12_CopyPostcondition ==
    (FsOk("ReplaceWithCopy") /\ Kind(fsCall.pre, fsCall.src) # "none") =>
        /\ Kind(fs, fsCall.src) # "none"
        /\ Tree(fs, fsCall.src) = Tree(fsCall.pre, fsCall.src)
        /\ Tree(fs, fsCall.dst) = Tree(fs, fsCall.src)

\* The stat of a helper's trace, when it has one.
StatOutcome(t) == IF t # <<>> /\ t[1][1] = "stat" THEN t[1][2] ELSE "none"

\* The non-empty prefixes of a sequence.
Prefixes(q) == {SubSeq(q, 1, k) : k \in 1..Len(q)}

\* The steps of a trace, in order.
StepNames(t) == [i \in 1..Len(t) |-> t[i][1]]

\* C18: in ReplaceWithCopy a stat error on dst other than "not found"
\* returns an error with nothing removed, created or copied; in both
\* helpers the step that fails (remove, directory-create, copy, rename) is
\* the last step that runs and the helper returns an error; a dst that does
\* not exist is no error: the helper goes on to create the directory.
C18_HelperFailuresFatal ==
    fsCall.op # "none" =>
        LET t == fsCall.trace
        IN  /\ \A i \in 1..Len(t) :
                   t[i][2] = "error" => (i = Len(t) /\ fsCall.err = t[i][1])
            /\ fsCall.err # "none" => (t # <<>> /\ t[Len(t)][2] = "error")
            /\ fsCall.op = "ReplaceWithCopy" =>
                   /\ StatOutcome(t) = "error" =>
                          (fsCall.err = "stat" /\ Len(t) = 1 /\ fs = fsCall.pre)
                   /\ StatOutcome(t) = "notfound" =>
                          (Len(t) >= 2 /\ t[2][1] = "mkdir" /\ fsCall.err # "stat")
                   /\ StatOutcome(t) = "ok" => (Len(t) >= 2 /\ t[2][1] = "remove")
                   /\ StepNames(t) \in
                          Prefixes(<<"stat", "remove", "mkdir", "copy">>)
                          \cup Prefixes(<<"stat", "mkdir", "copy">>)
                   /\ (Stat(fsCall.pre, fsCall.dst) = "notfound" /\ fsCall.fail = "none")
                          => StatOutcome(t) = "notfound"
                   /\ (Stat(fsCall.pre, fsCall.dst) = "error") => fsCall.err = "stat"
            /\ fsCall.op = "ReplaceWithMove" =>
                   /\ StepNames(t) \in Prefixes(<<"remove", "mkdir", "rename">>)
                   /\ (Stat(fsCall.pre, fsCall.dst) = "notfound"
                       /\ fsCall.fail # "remove")
                          => (t[1] = FsStep("remove", "ok") /\ Len(t) >= 2)
            /\ fsCall.err \in {"stat", "remove"} => fs = fsCall.pre
            /\ fsCall.err = "mkdir" =>
                   \A q \in DOMAIN fs : q \in DOMAIN fsCall.pre /\ fs[q] = fsCall.pre[q]

\* ReplaceWithCopy onto a path whose parent is a file: the stat fails with
\* an error other than "not found" and nothing else runs.
C18_Witness ==
    /\ fsCall.op = "ReplaceWithCopy"
    /\ fsCall.fail = "none"
    /\ fsCall.err = "stat"
    /\ fsCall.dst = <<"d", "s">>
    /\ Kind(fs, <<"d">>) = "f"
    /\ Kind(fs, <<"s">>) = "dir"
    /\ fsCall.src = <<"s">>
    /\ fsCall.trace = <<FsStep("stat", "error")>>

\* C20: when Read fails, at the index or at the index lock, Index and
\* IndexLock are what they were before the call, also when the index itself
\* was read; when it succeeds, both are the documents of the two files.
\* Read fails exactly when one of the two reads does.
C20_ReadAllOrNothing ==
    readCall.op = "Read" =>
        /\ readCall.err # "none" =>
               (Index = readCall.Index /\ IndexLock = readCall.IndexLock)
        /\ readCall.err = "none" =>
               (Index = baseDir.index.doc /\ IndexLock = baseDir.lock.doc)
        /\ readCall.err = "none" <=>
               /\ readCall.fail = "none"
               /\ baseDir.index.kind = "doc"
               /\ baseDir.lock.kind = "doc"
        /\ readCall.err = "read index file" <=>
               (readCall.fail = "index" \/ baseDir.index.kind \in Unreadable)

\* The index file holds a document that is not the Bundle's Index, the
\* lock file is damaged: Read fails and the Index is the old one.
C20_Witness ==
    /\ readCall.op = "Read"
    /\ readCall.err = "read index lock"
    /\ baseDir.index.kind = "doc"
    /\ baseDir.index.doc # Index
    /\ baseDir.lock.kind = "corrupt"
    /\ Index \in IndexDocs
    /\ IndexLock # NewIndexLock

\* The steps of trace t that read a file of a locked dependency and failed.
FailedLoads(t) == {i \in 1..Len(t) : t[i][1] \in {"index", "cache"} /\ ~t[i][3]}

\* A locked dependency whose manifest or metadata cache file is not there.
Unloadable(pk, tree) ==
    {n \in DOMAIN pk : ~tree[pk[n].AppCode].present \/ ~tree[pk[n].AppCode].cache}

\* The messages of the operational errors of the dependency loop.
LoadMessages == {"failed to read index file for", "failed to add entities from"}

AssetKeys(t) == {k \in DOMAIN TypeTable[t] : TypeTable[t][k].Asset}

\* The complete entries the successful asset steps of trace wrote, in order.
RECURSIVE Bundled(_, _)
Bundled(trace, files) ==
    IF trace = <<>> THEN <<>>
    ELSE (IF Head(trace)[1] = "asset" /\ Head(trace)[3]
          THEN <<Entry(Head(trace)[2], files[Head(trace)[2]].data, TRUE)>>
          ELSE <<>>) \o Bundled(Tail(trace), files)

\* The positions in the archive of the entries called name.
EntriesNamed(name) ==
    {i \in DOMAIN archive.entries : archive.entries[i].name = name}

\* C13: when Pack returns without error, the archive holds one manifest
\* entry, an entry with the file's contents at the path of every non-empty
\* asset path an entity instance holds at an asset-annotated field of its
\* type, and one entry with the file's contents per metadata cache file
\* listed in the manifest clone.
C13_BundleContents ==
    (packCall.op = "Pack" /\ packCall.err = "none") =>
        /\ Cardinality(EntriesNamed(IndexEntry)) = 1
        /\ \A j \in DOMAIN registry :
              \A k \in AssetKeys(GetParentCti(registry[j].Cti)) :
                  registry[j].Values[k] # "" =>
                      \E i \in DOMAIN archive.entries :
                          archive.entries[i] =
                              Entry(registry[j].Values[k],
                                    pkgFiles[registry[j].Values[k]].data, TRUE)
        /\ \A m \in Range(PutSerialized(PackIndex, MetadataCacheFile).Serialized) :
              /\ Cardinality(EntriesNamed(m)) = 1
              /\ \E i \in DOMAIN archive.entries :
                     archive.entries[i] = Entry(m, pkgFiles[m].data, TRUE)

\* The position of key k in the order of one range over the annotations.
KeyPos(order, k) == CHOOSE i \in DOMAIN order : order[i] = k

\* The position in trace at which the scan of entity cti starts, 0 if it
\* never does.
ScanStart(trace, cti) ==
    IF \E i \in DOMAIN trace : trace[i] = PStep("entity", cti, TRUE)
    THEN CHOOSE i \in DOMAIN trace : trace[i] = PStep("entity", cti, TRUE)
    ELSE 0

\* The position in trace of the first step after position i that is not an
\* asset step, Len(trace) + 1 if there is none.
ScanEnd(trace, i) ==
    IF \E n \in (i + 1)..Len(trace) : trace[n][1] # "asset"
    THEN CHOOSE n \in (i + 1)..Len(trace) :
             /\ trace[n][1] # "asset"
             /\ \A m \in (i + 1)..(n - 1) : trace[m][1] = "asset"
    ELSE Len(trace) + 1

\* The asset steps of the scan of the entity whose scan starts at i.
Segment(trace, i) == SubSeq(trace, i + 1, ScanEnd(trace, i) - 1)

\* The asset-annotated fields of entity that hold the empty path.
EmptyKeys(entity) ==
    {k \in AssetKeys(GetParentCti(entity.Cti)) : entity.Values[k] = ""}

\* The asset-annotated fields of entity that the range in the order given
\* visits before it visits an asset-annotated field holding the empty path.
KeysBeforeEmpty(entity, order) ==
    {k \in AssetKeys(GetParentCti(entity.Cti)) :
        \A e \in EmptyKeys(entity) : KeyPos(order, k) < KeyPos(order, e)}

\* The scan of the j-th entity started and reached an empty asset path:
\* the entity has one, and no asset visited before it failed.
ReachedEmpty(j, trace) ==
    /\ ScanStart(trace, registry[j].Cti) > 0
    /\ EmptyKeys(registry[j]) # {}
    /\ \A n \in DOMAIN Segment(trace, ScanStart(trace, registry[j].Cti)) :
           Segment(trace, ScanStart(trace, registry[j].Cti))[n][3]

\* What the scan of the j-th entity did, seg being its asset steps and
\* next the position of the step that follows them: exactly the non-empty
\* asset fields visited before the empty one were bundled, each once and
\* with the file's contents in the archive, and the step that follows is
\* the next entity's or, after the last entity, the manifest's.
StoppedAtEmpty(j, trace, seg, next) ==
    /\ Len(seg) = Cardinality(KeysBeforeEmpty(registry[j], packCall.orders[j]))
    /\ \A k \in KeysBeforeEmpty(registry[j], packCall.orders[j]) :
           /\ \E n \in DOMAIN seg : seg[n] = PStep("asset", registry[j].Values[k], TRUE)
           /\ \E i \in DOMAIN archive.entries :
                  archive.entries[i] = Entry(registry[j].Values[k],
                                             pkgFiles[registry[j].Values[k]].data, TRUE)
    /\ next \in DOMAIN trace
    /\ IF j < Len(registry)
       THEN trace[next][1] = "entity" /\ trace[next][2] = registry[j + 1].Cti
       ELSE trace[next][1] = "index"

\* C16: when the scan of an entity reaches an empty path at an
\* asset-annotated field, none of the entity's annotations visited after
\* it is bundled, those visited before it have been bundled, Pack does not
\* fail there, and it goes on with the next entity.
C16_EmptyAssetPath ==
    packCall.op = "Pack" =>
        \A j \in DOMAIN registry :
            ReachedEmpty(j, packCall.trace) =>
                StoppedAtEmpty(j, packCall.trace,
                               Segment(packCall.trace,
                                       ScanStart(packCall.trace, registry[j].Cti)),
                               ScanEnd(packCall.trace,
                                       ScanStart(packCall.trace, registry[j].Cti)))

\* Pack bundled the first entity's k1 asset, then met the empty path at its
\* k2 field, and went on to scan the second entity although the range had
\* not yet visited k3.
C16_Witness ==
    /\ packCall.op = "Pack"
    /\ Len(registry) = 2
    /\ registry[1].Values.k1 = "p1"
    /\ registry[1].Values.k2 = ""
    /\ packCall.orders[1] = <<"k1", "k2", "k3">>
    /\ registry[2].Values.k2 = "p2"
    /\ ReachedEmpty(1, packCall.trace)
    /\ PStep("asset", "p1", TRUE) \in Range(packCall.trace)
    /\ PStep("asset", "p2", TRUE) \in Range(packCall.trace)
    /\ packCall.err = "none"

\* The positions of trace at which an entity had no type or an asset could
\* not be bundled.
ScanFailures(trace) ==
    {i \in DOMAIN trace : trace[i][1] \in {"entity", "asset"} /\ ~trace[i][3]}

\* What fail-fast means for the failure at position i of trace: it is the
\* last step, Pack returns an error naming its entity or asset path, and
\* neither the manifest entry nor a metadata cache entry is written; the
\* archive file exists.
FailedFast(trace, i) ==
    /\ i = Len(trace)
    /\ packCall.err \in {"type", "asset open", "asset create", "asset copy"}
    /\ (packCall.err = "type") = (trace[i][1] = "entity")
    /\ ErrorNames(packCall.error) = {trace[i][2]}
    /\ \A n \in DOMAIN trace : trace[n][1] \notin {"index", "meta"}
    /\ EntriesNamed(IndexEntry) = {}
    /\ EntriesNamed(MetadataCacheFile) = {}
    /\ archive.exists

\* C17 as stated: on the first entity without a type, or the first asset
\* that cannot be opened or written, Pack returns an error naming it, scans
\* no further, writes neither the manifest nor a cache entry, and the
\* archive holds only the assets written before the failure.
C17_PackFailsFast ==
    packCall.op = "Pack" =>
        \A i \in ScanFailures(packCall.trace) :
            /\ FailedFast(packCall.trace, i)
            /\ archive.entries = Bundled(packCall.trace, pkgFiles)

\* C17 as the code has it: the same, except that an asset whose write
\* failed after its entry was created leaves that entry, incomplete, behind
\* the assets written before the failure.
C17_PackFailsFastAmended ==
    packCall.op = "Pack" =>
        \A i \in ScanFailures(packCall.trace) :
            /\ FailedFast(packCall.trace, i)
            /\ archive.entries =
                   Bundled(packCall.trace, pkgFiles)
                   \o (IF packCall.err = "asset copy"
                       THEN <<Entry(packCall.trace[i][2], <<>>, FALSE)>>
                       ELSE <<>>)

\* Pack bundled one asset, could not open the next, and returned; the
\* registry holds a second entity that was never scanned.
C17_Witness ==
    /\ packCall.op = "Pack"
    /\ packCall.err = "asset open"
    /\ Len(registry) = 2
    /\ ScanStart(packCall.trace, registry[2].Cti) = 0
    /\ Len(archive.entries) = 1
    /\ ScanFailures(packCall.trace) # {}

====
